---- MODULE Spec2Model ----
(***************************************************************************)
(* A model of the kfifo ring buffer (src/kfifo.c and its header,           *)
(* src/unnamed/part_000): the struct __kfifo, the byte/fixed-element       *)
(* operations and the record operations.  Every C function is an operator  *)
(* on the struct that returns the struct after the call together with the  *)
(* value returned and the bytes copied out; every action applies one of    *)
(* them to the fifo.  Unsigned arithmetic is taken modulo uint_max + 1,     *)
(* 2^UintBits except where records longer than 2^CharBits bytes need a     *)
(* buffer that only 2^WideBits can index.  The producer and the consumer   *)
(* thread run kfifo_in and kfifo_out as a load of the other thread's       *)
(* index, a copy and a store to their own index.                           *)
(***************************************************************************)
EXTENDS Integers, Sequences, FiniteSets, TLC

(* ------------------------------ bounds -------------------------------- *)

\* Width in bits of the model's `unsigned int` (32 in the C build, scaled down).
UintBits == 4

\* Buffer sizes in bytes handed to __kfifo_init: 0..MaxSize and the two
\* sizes with the top bit of the unsigned int set.
MaxSize == 5

\* An enqueue or dequeue asks for at most kfifo_size + MaxOver elements.
MaxOver == 1

\* Width in bits of the unsigned int of the build in which records longer than
\* a one-byte header can count are tried: enough for a buffer of twice 2^CharBits.
WideBits == 11

\* The number of elements of the producer thread's input stream.
StreamLen == 9

(* ------------------------- program constants -------------------------- *)

\* errno.h's EINVAL, returned negated by __kfifo_init.
EINVAL == 22

\* Bits of an unsigned char, the unit of the buffer and of __KFIFO_POKE's cast.
CharBits == 8

(* --------------------------- unsigned int ----------------------------- *)

\* limits.h's UINT_MAX of the build the fifo runs in; no call changes it.
VARIABLE uint_max

UintMod == uint_max + 1

\* Truncation to unsigned int.
Uint(x) == x % UintMod

\* Truncation to unsigned char.
UChar(x) == x % (2 ^ CharBits)

min(x, y) == IF x < y THEN x ELSE y

RECURSIVE BitAnd(_, _)
BitAnd(x, y) ==
    IF x = 0 \/ y = 0 THEN 0
    ELSE (IF x % 2 = 1 /\ y % 2 = 1 THEN 1 ELSE 0) + 2 * BitAnd(x \div 2, y \div 2)

RECURSIVE BitOr(_, _)
BitOr(x, y) ==
    IF x = 0 THEN y
    ELSE IF y = 0 THEN x
    ELSE (IF x % 2 = 1 \/ y % 2 = 1 THEN 1 ELSE 0) + 2 * BitOr(x \div 2, y \div 2)

\* x >> k on an unsigned int.
Shr(x, k) == x \div (2 ^ k)

\* c << k for an unsigned char c, promoted to int: no bit is shifted out.
Shl(c, k) == c * (2 ^ k)

(* ------------------------- capacity rounding -------------------------- *)

roundup_pow_of_two(v) ==
    LET v0 == Uint(v - 1)
        v1 == BitOr(v0, Shr(v0, 1))
        v2 == BitOr(v1, Shr(v1, 2))
        v3 == BitOr(v2, Shr(v2, 4))
        v4 == BitOr(v3, Shr(v3, 8))
        v5 == BitOr(v4, Shr(v4, 16))
    IN  Uint(v5 + 1)

\* rounddown_pow_of_two without the final halving.
rounddown_pow_of_two_nohalve(n) ==
    LET n1 == BitOr(n, Shr(n, 1))
        n2 == BitOr(n1, Shr(n1, 2))
        n3 == BitOr(n2, Shr(n2, 4))
        n4 == BitOr(n3, Shr(n3, 8))
        n5 == BitOr(n4, Shr(n4, 16))
    IN  Uint(n5 + 1)

rounddown_pow_of_two(n) ==
    LET n1 == BitOr(n, Shr(n, 1))
        n2 == BitOr(n1, Shr(n1, 2))
        n3 == BitOr(n2, Shr(n2, 4))
        n4 == BitOr(n3, Shr(n3, 8))
        n5 == BitOr(n4, Shr(n4, 16))
    IN  Shr(Uint(n5 + 1), 1)

(* ------------------------------ memory -------------------------------- *)

\* memcpy(data + off, bytes, Len(bytes)): the buffer after the copy.
memcpy_to(data, off, bytes) ==
    [i \in DOMAIN data |->
        IF off <= i /\ i < off + Len(bytes) THEN bytes[i - off + 1] ELSE data[i]]

\* memcpy(dst, data + off, n): the n bytes copied out.
memcpy_from(data, off, n) == [i \in 1..n |-> data[off + i - 1]]

\* The bytes bytes[from + 1 .. from + n] of a caller's array (src + from).
Bytes(bytes, from, n) == [i \in 1..n |-> bytes[from + i]]

(* ----------------------- byte / element mode -------------------------- *)

kfifo_size(f) == Uint(f.mask + 1)

\* kfifo_len as a difference of plain numbers, without the wrap of the unsigned int.
kfifo_len_nowrap(f) == IF f.in >= f.out THEN f.in - f.out ELSE 0

kfifo_len(f) == Uint(f.in - f.out)

kfifo_is_empty(f) == f.in = f.out

kfifo_is_full(f) == kfifo_len(f) > f.mask

kfifo_initialized(f) == f.mask # 0

\* kfifo_unused with the occupancy forgotten: the whole capacity counts as free.
kfifo_unused_capacity(f) == Uint(f.mask + 1)

kfifo_unused(f) == Uint((f.mask + 1) - Uint(f.in - f.out))

\* The struct before any initialisation (zeroed storage, no buffer).
ZeroFifo == [in |-> 0, out |-> 0, mask |-> 0, esize |-> 0, data |-> <<>>]

\* __kfifo_init returning the error before it touches the struct.
__kfifo_init_untouched(f, size, es, fill) ==
    LET size2 == rounddown_pow_of_two(size \div es)
    IN  IF size2 < 2
        THEN [fifo |-> f, ret |-> -EINVAL]
        ELSE [fifo |-> [in |-> 0, out |-> 0, esize |-> es, mask |-> Uint(size2 - 1),
                        data |-> [i \in 0..(size - 1) |-> fill]],
              ret |-> 0]

\* __kfifo_init on a buffer of `size` bytes whose bytes are all `fill`.
__kfifo_init(f, size, es, fill) ==
    LET size1 == size \div es
        size2 == rounddown_pow_of_two(size1)
        g == [in |-> 0, out |-> 0, esize |-> es,
              data |-> [i \in 0..(size - 1) |-> fill], mask |-> f.mask]
    IN  IF size2 < 2
        THEN [fifo |-> [g EXCEPT !.mask = 0], ret |-> -EINVAL]
        ELSE [fifo |-> [g EXCEPT !.mask = Uint(size2 - 1)], ret |-> 0]

\* kfifo_copy_in without the split at the end of the buffer: one memcpy.
kfifo_copy_in_nowrap(f, src, len, off) ==
    LET off0 == BitAnd(off, f.mask)
        off1 == IF f.esize # 1 THEN Uint(off0 * f.esize) ELSE off0
        len1 == IF f.esize # 1 THEN Uint(len * f.esize) ELSE len
    IN  memcpy_to(f.data, off1, Bytes(src, 0, len1))

\* The buffer after kfifo_copy_in(fifo, src, len, off).
kfifo_copy_in(f, src, len, off) ==
    LET size0 == Uint(f.mask + 1)
        off0 == BitAnd(off, f.mask)
        off1 == IF f.esize # 1 THEN Uint(off0 * f.esize) ELSE off0
        size1 == IF f.esize # 1 THEN Uint(size0 * f.esize) ELSE size0
        len1 == IF f.esize # 1 THEN Uint(len * f.esize) ELSE len
        l == min(len1, Uint(size1 - off1))
    IN  memcpy_to(memcpy_to(f.data, off1, Bytes(src, 0, l)), 0, Bytes(src, l, len1 - l))

\* __kfifo_in with the index advanced by the count asked for, not the one copied.
__kfifo_in_advance_len(f, buf, len) ==
    LET l == kfifo_unused(f)
        len1 == IF len > l THEN l ELSE len
    IN  [fifo |-> [f EXCEPT !.data = kfifo_copy_in(f, buf, len1, f.in),
                            !.in = Uint(f.in + len)],
         ret |-> len1]

\* __kfifo_in without the clamp of len to the unused space.
__kfifo_in_unclamped(f, buf, len) ==
    [fifo |-> [f EXCEPT !.data = kfifo_copy_in(f, buf, len, f.in),
                        !.in = Uint(f.in + len)],
     ret |-> len]

__kfifo_in(f, buf, len) ==
    LET l == kfifo_unused(f)
        len1 == IF len > l THEN l ELSE len
    IN  [fifo |-> [f EXCEPT !.data = kfifo_copy_in(f, buf, len1, f.in),
                            !.in = Uint(f.in + len1)],
         ret |-> len1]

\* The bytes kfifo_copy_out(fifo, dst, len, off) stores in dst.
kfifo_copy_out(f, len, off) ==
    LET size0 == Uint(f.mask + 1)
        off0 == BitAnd(off, f.mask)
        off1 == IF f.esize # 1 THEN Uint(off0 * f.esize) ELSE off0
        size1 == IF f.esize # 1 THEN Uint(size0 * f.esize) ELSE size0
        len1 == IF f.esize # 1 THEN Uint(len * f.esize) ELSE len
        l == min(len1, Uint(size1 - off1))
    IN  memcpy_from(f.data, off1, l) \o memcpy_from(f.data, 0, len1 - l)

\* __kfifo_out_peek reading from the slot after the read index.
__kfifo_out_peek_next(f, len) ==
    LET l == Uint(f.in - f.out)
        len1 == IF len > l THEN l ELSE len
    IN  [fifo |-> f, ret |-> len1, dst |-> kfifo_copy_out(f, len1, Uint(f.out + 1))]

__kfifo_out_peek(f, len) ==
    LET l == Uint(f.in - f.out)
        len1 == IF len > l THEN l ELSE len
    IN  [fifo |-> f, ret |-> len1, dst |-> kfifo_copy_out(f, len1, f.out)]

__kfifo_out(f, len) ==
    LET p == __kfifo_out_peek(f, len)
    IN  [fifo |-> [p.fifo EXCEPT !.out = Uint(p.fifo.out + p.ret)],
         ret |-> p.ret, dst |-> p.dst]

kfifo_reset(f) == [f EXCEPT !.in = 0, !.out = 0]

\* kfifo_reset_out rewinding the read index to 0, as kfifo_reset does.
kfifo_reset_out_zero(f) == [f EXCEPT !.out = 0]

kfifo_reset_out(f) == [f EXCEPT !.out = f.in]

(* ---------------------------- record mode ----------------------------- *)

__kfifo_max_r(len, recsize) ==
    LET max == (2 ^ (recsize * 8)) - 1
    IN  IF len > max THEN max ELSE len

\* __KFIFO_PEEK(data, out, mask)
KFIFO_PEEK(data, idx, mask) == data[BitAnd(idx, mask)]

\* __KFIFO_POKE(data, in, mask, val): the buffer after the store.
KFIFO_POKE(data, idx, mask, val) == [data EXCEPT ![BitAnd(idx, mask)] = UChar(val)]

__kfifo_peek_n(f, recsize) ==
    LET l == KFIFO_PEEK(f.data, f.out, f.mask)
    IN  IF recsize - 1 # 0
        THEN BitOr(l, Shl(KFIFO_PEEK(f.data, Uint(f.out + 1), f.mask), 8))
        ELSE l

\* __kfifo_poke_n storing a two-byte length high byte first.
__kfifo_poke_n_bigendian(f, n, recsize) ==
    IF recsize > 1
    THEN KFIFO_POKE(KFIFO_POKE(f.data, f.in, f.mask, Shr(n, 8)), Uint(f.in + 1), f.mask, n)
    ELSE KFIFO_POKE(f.data, f.in, f.mask, n)

\* The buffer after __kfifo_poke_n(fifo, n, recsize).
__kfifo_poke_n(f, n, recsize) ==
    LET d1 == KFIFO_POKE(f.data, f.in, f.mask, n)
    IN  IF recsize > 1
        THEN KFIFO_POKE(d1, Uint(f.in + 1), f.mask, Shr(n, 8))
        ELSE d1

__kfifo_len_r(f, recsize) == [fifo |-> f, ret |-> __kfifo_peek_n(f, recsize)]

\* __kfifo_in_r checking the room for the payload alone, without the header.
__kfifo_in_r_payload_only(f, buf, len, recsize) ==
    IF len > kfifo_unused(f)
    THEN [fifo |-> f, ret |-> 0]
    ELSE LET f1 == [f EXCEPT !.data = __kfifo_poke_n(f, len, recsize)]
             f2 == [f1 EXCEPT !.data = kfifo_copy_in(f1, buf, len, Uint(f1.in + recsize))]
         IN  [fifo |-> [f2 EXCEPT !.in = Uint(f2.in + len + recsize)], ret |-> len]

\* __kfifo_in_r advancing the write index by the payload's length alone.
__kfifo_in_r_advance_len(f, buf, len, recsize) ==
    IF len + recsize > kfifo_unused(f)
    THEN [fifo |-> f, ret |-> 0]
    ELSE LET f1 == [f EXCEPT !.data = __kfifo_poke_n(f, len, recsize)]
             f2 == [f1 EXCEPT !.data = kfifo_copy_in(f1, buf, len, Uint(f1.in + recsize))]
         IN  [fifo |-> [f2 EXCEPT !.in = Uint(f2.in + len)], ret |-> len]

\* __kfifo_in_r returning the bytes it stored, the header's included.
__kfifo_in_r_return_stored(f, buf, len, recsize) ==
    IF len + recsize > kfifo_unused(f)
    THEN [fifo |-> f, ret |-> 0]
    ELSE LET f1 == [f EXCEPT !.data = __kfifo_poke_n(f, len, recsize)]
             f2 == [f1 EXCEPT !.data = kfifo_copy_in(f1, buf, len, Uint(f1.in + recsize))]
         IN  [fifo |-> [f2 EXCEPT !.in = Uint(f2.in + len + recsize)], ret |-> len + recsize]

\* len + recsize is a size_t sum: it does not wrap at the unsigned int's width.
__kfifo_in_r(f, buf, len, recsize) ==
    IF len + recsize > kfifo_unused(f)
    THEN [fifo |-> f, ret |-> 0]
    ELSE LET f1 == [f EXCEPT !.data = __kfifo_poke_n(f, len, recsize)]
             f2 == [f1 EXCEPT !.data = kfifo_copy_in(f1, buf, len, Uint(f1.in + recsize))]
         IN  [fifo |-> [f2 EXCEPT !.in = Uint(f2.in + len + recsize)], ret |-> len]

kfifo_out_copy_r(f, len, recsize) ==
    LET n == __kfifo_peek_n(f, recsize)
        len1 == IF len > n THEN n ELSE len
    IN  [ret |-> len1, n |-> n, dst |-> kfifo_copy_out(f, len1, Uint(f.out + recsize))]

\* __kfifo_out_peek_r advancing the read index as __kfifo_out_r does.
__kfifo_out_peek_r_consuming(f, len, recsize) ==
    IF f.in = f.out
    THEN [fifo |-> f, ret |-> 0, dst |-> <<>>]
    ELSE LET c == kfifo_out_copy_r(f, len, recsize)
         IN  [fifo |-> [f EXCEPT !.out = Uint(f.out + c.n + recsize)],
              ret |-> c.ret, dst |-> c.dst]

__kfifo_out_peek_r(f, len, recsize) ==
    IF f.in = f.out
    THEN [fifo |-> f, ret |-> 0, dst |-> <<>>]
    ELSE LET c == kfifo_out_copy_r(f, len, recsize)
         IN  [fifo |-> f, ret |-> c.ret, dst |-> c.dst]

\* __kfifo_out_r advancing the read index by the bytes copied, not the record's.
__kfifo_out_r_advance_copied(f, len, recsize) ==
    IF f.in = f.out
    THEN [fifo |-> f, ret |-> 0, dst |-> <<>>]
    ELSE LET c == kfifo_out_copy_r(f, len, recsize)
         IN  [fifo |-> [f EXCEPT !.out = Uint(f.out + c.ret + recsize)],
              ret |-> c.ret, dst |-> c.dst]

__kfifo_out_r(f, len, recsize) ==
    IF f.in = f.out
    THEN [fifo |-> f, ret |-> 0, dst |-> <<>>]
    ELSE LET c == kfifo_out_copy_r(f, len, recsize)
         IN  [fifo |-> [f EXCEPT !.out = Uint(f.out + c.n + recsize)],
              ret |-> c.ret, dst |-> c.dst]

__kfifo_skip_r(f, recsize) ==
    LET n == __kfifo_peek_n(f, recsize)
    IN  [f EXCEPT !.out = Uint(f.out + n + recsize)]

(* --------------------------- the callers' data ------------------------ *)

\* Element sizes of the fifo types in byte/element mode.
ElemSizes == {1, 2}

\* Record header widths (STRUCT_KFIFO_REC_1, STRUCT_KFIFO_REC_2); 0: no records.
RecSizes == {0, 1, 2}

\* The byte a fresh buffer is filled with before __kfifo_init gets it.
FillBytes == {255}

\* The producer writes a numbered stream: the element it offers for write index
\* p carries the stamp of p in each of its bytes' values, so that a lost, doubled,
\* misplaced or reordered byte shows in what the consumer gets.
Elem(p, es) == [i \in 1..es |-> 1 + Uint(p) * es + (i - 1)]

\* The n elements a producer offers when the write index is w.
Source(w, n, es) == [k \in 1..n |-> Elem(w + k - 1, es)]

\* The payload of len bytes a producer offers as one record: its bytes are 128
\* and up, and differ from one another in a payload of less than 128 bytes.
Payload(len) == [i \in 1..len |-> 128 + (i % 128)]

RECURSIVE Flatten(_)
Flatten(items) == IF items = <<>> THEN <<>> ELSE Head(items) \o Flatten(Tail(items))

Take(s, n) == SubSeq(s, 1, n)

Drop(s, n) == SubSeq(s, n + 1, Len(s))

\* Buffer sizes in bytes handed to kfifo_init.
InitSizes == 0..MaxSize

\* Counts a caller asks for: up to MaxOver more than the fifo holds.
Counts(f) == 0..(kfifo_size(f) + MaxOver)

(* ------------------------------ the state ----------------------------- *)

VARIABLES
    fifo,       \* the struct __kfifo; fifo.data is the buffer's bytes, from offset 0
    recsize,    \* the record header width of the fifo's type (0: byte/element mode)
    queued,     \* the items accepted and not yet consumed, oldest first
    op,         \* the last call
    short,      \* whether it was asked for more than it could take or deliver
    ret,        \* the value it returned
    ppc,        \* the producer thread: where it is in its kfifo_in
    plen,       \* the producer's local len, after the clamp to the unused space
    cpc,        \* the consumer thread: where it is in its kfifo_out or kfifo_reset_out
    clen,       \* the consumer's local len, after the clamp to what is queued
    cin,        \* the value of fifo->in the consumer loaded last
    received,   \* the bytes copied into the consumer's buffers since the last reset
    base        \* the read index the first of them was copied from

\* The two threads' variables: the calls of a single thread leave them alone.
procs == <<ppc, plen, cpc, clen, cin, received, base>>

vars == <<uint_max, fifo, recsize, queued, op, short, ret, procs>>

Init ==
    /\ fifo = ZeroFifo
    /\ recsize \in RecSizes
    /\ queued = <<>>
    /\ op = "none"
    /\ short = FALSE
    /\ ret = 0
    /\ uint_max = (2 ^ UintBits) - 1
    /\ ppc = "idle"
    /\ plen = 0
    /\ cpc = "idle"
    /\ clen = 0
    /\ cin = 0
    /\ received = <<>>
    /\ base = 0

\* kfifo_init(fifo, buffer, size) with a buffer of `size` bytes.  Record fifos
\* hold unsigned chars.
KfifoInitWith(sizes) ==
    \E size \in sizes, es \in ElemSizes, fill \in FillBytes :
        /\ recsize # 0 => es = 1
        /\ LET r == __kfifo_init(fifo, size, es, fill)
           IN  /\ fifo' = r.fifo
               /\ ret' = r.ret
        /\ queued' = <<>>
        /\ op' = "init"
        /\ short' = FALSE
        /\ UNCHANGED <<recsize, uint_max, procs>>

\* The construction of the fifo, tried again after a failure.
KfifoInit ==
    /\ ~kfifo_initialized(fifo)
    /\ KfifoInitWith(InitSizes)

\* kfifo_in(fifo, buf, n) on a fifo without records.
KfifoIn ==
    /\ kfifo_initialized(fifo)
    /\ recsize = 0
    /\ \E n \in Counts(fifo) :
        LET src == Source(fifo.in, n, fifo.esize)
            r == __kfifo_in(fifo, Flatten(src), n)
        IN  /\ fifo' = r.fifo
            /\ ret' = r.ret
            /\ queued' = queued \o Take(src, r.ret)
            /\ short' = (r.ret < n)
    /\ op' = "in"
    /\ UNCHANGED <<recsize, uint_max, procs>>

\* kfifo_out(fifo, buf, n) on a fifo without records.
KfifoOut ==
    /\ kfifo_initialized(fifo)
    /\ recsize = 0
    /\ \E n \in Counts(fifo) :
        LET r == __kfifo_out(fifo, n)
        IN  /\ fifo' = r.fifo
            /\ ret' = r.ret
            /\ queued' = Drop(queued, r.ret)
            /\ short' = (r.ret < n)
    /\ op' = "out"
    /\ UNCHANGED <<recsize, uint_max, procs>>

\* kfifo_out_peek(fifo, buf, n) on a fifo without records.
KfifoOutPeek ==
    /\ kfifo_initialized(fifo)
    /\ recsize = 0
    /\ \E n \in Counts(fifo) :
        LET r == __kfifo_out_peek(fifo, n)
        IN  /\ fifo' = r.fifo
            /\ ret' = r.ret
            /\ short' = (r.ret < n)
    /\ op' = "out_peek"
    /\ UNCHANGED <<recsize, queued, uint_max, procs>>

\* kfifo_reset(fifo)
KfifoReset ==
    /\ kfifo_initialized(fifo)
    /\ fifo' = kfifo_reset(fifo)
    /\ queued' = <<>>
    /\ op' = "reset"
    /\ short' = FALSE
    /\ ret' = 0
    /\ UNCHANGED <<recsize, uint_max, procs>>

\* kfifo_reset_out(fifo)
KfifoResetOut ==
    /\ kfifo_initialized(fifo)
    /\ fifo' = kfifo_reset_out(fifo)
    /\ queued' = <<>>
    /\ op' = "reset_out"
    /\ short' = FALSE
    /\ ret' = 0
    /\ UNCHANGED <<recsize, uint_max, procs>>

\* kfifo_in(fifo, buf, n) on a record fifo: one record of n bytes.
KfifoInR ==
    /\ kfifo_initialized(fifo)
    /\ recsize # 0
    /\ \E n \in Counts(fifo) :
        LET src == Payload(n)
            r == __kfifo_in_r(fifo, src, n, recsize)
        IN  /\ fifo' = r.fifo
            /\ ret' = r.ret
            /\ queued' = IF r.fifo.in # fifo.in THEN Append(queued, src) ELSE queued
            /\ short' = (r.fifo.in = fifo.in)
    /\ op' = "in_r"
    /\ UNCHANGED <<recsize, uint_max, procs>>

\* kfifo_out(fifo, buf, n) on a record fifo: the next record, into n bytes.
KfifoOutR ==
    /\ kfifo_initialized(fifo)
    /\ recsize # 0
    /\ \E n \in Counts(fifo) :
        LET r == __kfifo_out_r(fifo, n, recsize)
        IN  /\ fifo' = r.fifo
            /\ ret' = r.ret
            /\ queued' = IF r.fifo.out # fifo.out THEN Tail(queued) ELSE queued
            /\ short' = (queued # <<>> /\ n < Len(Head(queued)))
    /\ op' = "out_r"
    /\ UNCHANGED <<recsize, uint_max, procs>>

\* kfifo_out_peek(fifo, buf, n) on a record fifo.
KfifoOutPeekR ==
    /\ kfifo_initialized(fifo)
    /\ recsize # 0
    /\ \E n \in Counts(fifo) :
        LET r == __kfifo_out_peek_r(fifo, n, recsize)
        IN  /\ fifo' = r.fifo
            /\ ret' = r.ret
            /\ short' = (queued # <<>> /\ n < Len(Head(queued)))
    /\ op' = "out_peek_r"
    /\ UNCHANGED <<recsize, queued, uint_max, procs>>

\* kfifo_peek_len(fifo) on a record fifo.
KfifoPeekLen ==
    /\ kfifo_initialized(fifo)
    /\ recsize # 0
    /\ LET r == __kfifo_len_r(fifo, recsize)
       IN  /\ fifo' = r.fifo
           /\ ret' = r.ret
    /\ op' = "len_r"
    /\ short' = FALSE
    /\ UNCHANGED <<recsize, queued, uint_max, procs>>

\* kfifo_skip(fifo) on a record fifo that holds a record.
KfifoSkip ==
    /\ kfifo_initialized(fifo)
    /\ recsize # 0
    /\ ~kfifo_is_empty(fifo)
    /\ fifo' = __kfifo_skip_r(fifo, recsize)
    /\ queued' = Tail(queued)
    /\ op' = "skip_r"
    /\ short' = FALSE
    /\ ret' = 0
    /\ UNCHANGED <<recsize, uint_max, procs>>

Next ==
    \/ KfifoInit
    \/ KfifoIn
    \/ KfifoOut
    \/ KfifoOutPeek
    \/ KfifoReset
    \/ KfifoResetOut
    \/ KfifoInR
    \/ KfifoOutR
    \/ KfifoOutPeekR
    \/ KfifoPeekLen
    \/ KfifoSkip

\* A fifo used through its whole interface, in byte/element or in record mode.
Spec == Init /\ [][Next]_vars

(* ---------------- initialisation with any buffer size ----------------- *)

\* Every size an unsigned int holds.
AllSizes == 0..(UintMod - 1)

\* kfifo_init called at any time, on a fresh fifo or on one in use.
KfifoReinit == KfifoInitWith(AllSizes)

\* A producer filling the fifo, one element at a time.
KfifoPut ==
    /\ kfifo_initialized(fifo)
    /\ recsize = 0
    /\ LET src == Source(fifo.in, 1, fifo.esize)
           r == __kfifo_in(fifo, Flatten(src), 1)
       IN  /\ fifo' = r.fifo
           /\ ret' = r.ret
           /\ queued' = queued \o Take(src, r.ret)
           /\ short' = (r.ret < 1)
    /\ op' = "in"
    /\ UNCHANGED <<recsize, uint_max, procs>>

NextInit ==
    \/ KfifoReinit
    \/ KfifoPut

\* A fifo that is initialised, filled without any dequeue, and initialised again.
SpecInit == Init /\ [][NextInit]_vars

(* ------------- a record fifo whose caller skips at any time ----------- *)

\* The fifo holds no more than its size: the calls below are followed up to the
\* first one that leaves the fifo otherwise, and no further.
InBounds(f) == kfifo_len(f) <= kfifo_size(f)

\* kfifo_in(fifo, buf, n) on a record fifo, in whatever state the fifo is.
CallKfifoIn ==
    /\ kfifo_initialized(fifo)
    /\ InBounds(fifo)
    /\ \E n \in Counts(fifo) :
        LET r == __kfifo_in_r(fifo, Payload(n), n, recsize)
        IN  /\ fifo' = r.fifo
            /\ ret' = r.ret
            /\ short' = (r.fifo.in = fifo.in)
    /\ op' = "in_r"
    /\ UNCHANGED <<recsize, queued, uint_max, procs>>

\* kfifo_out(fifo, buf, n) on a record fifo, in whatever state the fifo is.
CallKfifoOut ==
    /\ kfifo_initialized(fifo)
    /\ InBounds(fifo)
    /\ \E n \in Counts(fifo) :
        LET r == __kfifo_out_r(fifo, n, recsize)
        IN  /\ fifo' = r.fifo
            /\ ret' = r.ret
            /\ short' = (r.fifo.out = fifo.out)
    /\ op' = "out_r"
    /\ UNCHANGED <<recsize, queued, uint_max, procs>>

\* kfifo_peek_len(fifo) on a record fifo, empty or not.
CallKfifoPeekLen ==
    /\ kfifo_initialized(fifo)
    /\ InBounds(fifo)
    /\ LET r == __kfifo_len_r(fifo, recsize)
       IN  /\ fifo' = r.fifo
           /\ ret' = r.ret
    /\ op' = "len_r"
    /\ short' = kfifo_is_empty(fifo)
    /\ UNCHANGED <<recsize, queued, uint_max, procs>>

\* kfifo_skip(fifo) on a record fifo, empty or not.
CallKfifoSkip ==
    /\ kfifo_initialized(fifo)
    /\ InBounds(fifo)
    /\ fifo' = __kfifo_skip_r(fifo, recsize)
    /\ op' = "skip_r"
    /\ short' = kfifo_is_empty(fifo)
    /\ ret' = 0
    /\ UNCHANGED <<recsize, queued, uint_max, procs>>

InitSkip ==
    /\ Init
    /\ recsize # 0

NextSkip ==
    \/ KfifoInit
    \/ CallKfifoIn
    \/ CallKfifoOut
    \/ CallKfifoPeekLen
    \/ CallKfifoSkip

\* A fifo of records used by a caller that skips, and asks for the next
\* record's length, without looking whether the fifo holds a record.
SpecSkip == InitSkip /\ [][NextSkip]_vars

(* -------- a record fifo that holds more than a header can count ------- *)

\* A buffer of twice 2^CharBits bytes: with a one-byte header, a record longer
\* than the header can count fits in it.
WideSize == 2 ^ (CharBits + 1)

\* The payload lengths offered: half of what a one-byte header counts, the
\* most it counts, and more.
RecordLens == {(2 ^ (CharBits - 1)) - 1, (2 ^ CharBits) - 1, 2 ^ CharBits, (2 ^ CharBits) + 44}

\* The sizes of the consumer's buffer: one byte, and room for any record.
BufferLens == {1, WideSize}

\* Every queued record went in with the length the caller's clamp allows:
\* len = __kfifo_max_r(len, recsize).  The calls below are followed up to the
\* first record accepted with a greater length, and no further.
Clamped ==
    \A i \in 1..Len(queued) : Len(queued[i]) = __kfifo_max_r(Len(queued[i]), recsize)

\* kfifo_init of a one-byte-header record fifo over a buffer of WideSize bytes.
KfifoInitWide ==
    /\ ~kfifo_initialized(fifo)
    /\ KfifoInitWith({WideSize})

\* kfifo_in(fifo, buf, n) of a record of n bytes, n not clamped by the caller.
KfifoInLong ==
    /\ kfifo_initialized(fifo)
    /\ Clamped
    /\ \E n \in RecordLens :
        LET src == Payload(n)
            r == __kfifo_in_r(fifo, src, n, recsize)
        IN  /\ fifo' = r.fifo
            /\ ret' = r.ret
            /\ queued' = IF r.fifo.in # fifo.in THEN Append(queued, src) ELSE queued
            /\ short' = (r.fifo.in = fifo.in)
    /\ op' = "in_r"
    /\ UNCHANGED <<recsize, uint_max, procs>>

\* kfifo_out(fifo, buf, n) of the next record.
KfifoOutLong ==
    /\ kfifo_initialized(fifo)
    /\ Clamped
    /\ \E n \in BufferLens :
        LET r == __kfifo_out_r(fifo, n, recsize)
        IN  /\ fifo' = r.fifo
            /\ ret' = r.ret
            /\ queued' = IF r.fifo.out # fifo.out THEN Tail(queued) ELSE queued
            /\ short' = (queued # <<>> /\ n < Len(Head(queued)))
    /\ op' = "out_r"
    /\ UNCHANGED <<recsize, uint_max, procs>>

InitWide ==
    /\ fifo = ZeroFifo
    /\ recsize = 1
    /\ queued = <<>>
    /\ op = "none"
    /\ short = FALSE
    /\ ret = 0
    /\ uint_max = (2 ^ WideBits) - 1
    /\ ppc = "idle"
    /\ plen = 0
    /\ cpc = "idle"
    /\ clen = 0
    /\ cin = 0
    /\ received = <<>>
    /\ base = 0

NextWide ==
    \/ KfifoInitWide
    \/ KfifoInLong
    \/ KfifoOutLong

\* A record fifo with a one-byte header in a build with a wider unsigned int,
\* whose caller offers records without clamping their length.
SpecWide == InitWide /\ [][NextWide]_vars

(* ------------- one producer thread and one consumer thread ------------ *)

\* The fifo after a kfifo_init that succeeded; the threads start after it.
InitSPSC ==
    /\ uint_max = (2 ^ UintBits) - 1
    /\ \E size \in InitSizes, es \in ElemSizes, fill \in FillBytes :
        LET r == __kfifo_init(ZeroFifo, size, es, fill)
        IN  /\ r.ret = 0
            /\ fifo = r.fifo
    /\ recsize = 0
    /\ queued = <<>>
    /\ op = "init"
    /\ short = FALSE
    /\ ret = 0
    /\ ppc = "idle"
    /\ plen = 0
    /\ cpc = "idle"
    /\ clen = 0
    /\ cin = 0
    /\ received = <<>>
    /\ base = 0

\* ProducerCall with the store to fifo->in made at once, before the copy.
ProducerCallPublishing ==
    /\ ppc = "idle"
    /\ fifo.in < StreamLen
    /\ \E n \in 1..min(StreamLen - fifo.in, kfifo_size(fifo) + MaxOver) :
        LET l == kfifo_unused(fifo)
        IN  /\ plen' = (IF n > l THEN l ELSE n)
            /\ short' = (short \/ n > l)
            /\ fifo' = [fifo EXCEPT !.in = Uint(fifo.in + (IF n > l THEN l ELSE n))]
    /\ ppc' = "copy"
    /\ op' = "in"
    /\ UNCHANGED <<uint_max, recsize, queued, ret, cpc, clen, cin, received, base>>

\* The producer enters __kfifo_in with the next n elements of its stream: it
\* loads fifo->out and clamps len to the unused space.  `short` keeps whether
\* any of its calls was clamped.
ProducerCall ==
    /\ ppc = "idle"
    /\ fifo.in < StreamLen
    /\ \E n \in 1..min(StreamLen - fifo.in, kfifo_size(fifo) + MaxOver) :
        LET l == kfifo_unused(fifo)
        IN  /\ plen' = (IF n > l THEN l ELSE n)
            /\ short' = (short \/ n > l)
    /\ ppc' = "copy"
    /\ op' = "in"
    /\ UNCHANGED <<uint_max, fifo, recsize, queued, ret, cpc, clen, cin, received, base>>

\* kfifo_copy_in(fifo, buf, len, fifo->in): the two memcpy and the barrier.
ProducerCopy ==
    /\ ppc = "copy"
    /\ fifo' = [fifo EXCEPT !.data =
            kfifo_copy_in(fifo, Flatten(Source(fifo.in, plen, fifo.esize)), plen, fifo.in)]
    /\ ppc' = "publish"
    /\ UNCHANGED <<uint_max, recsize, queued, op, short, ret, plen, cpc, clen, cin, received, base>>

\* __kfifo_in returning without the store to fifo->in.
ProducerReturn ==
    /\ ppc = "publish"
    /\ ppc' = "idle"
    /\ UNCHANGED <<uint_max, fifo, recsize, queued, op, short, ret, plen, cpc, clen, cin, received, base>>

\* fifo->in += len; return len.
ProducerPublish ==
    /\ ppc = "publish"
    /\ fifo' = [fifo EXCEPT !.in = Uint(fifo.in + plen)]
    /\ ppc' = "idle"
    /\ UNCHANGED <<uint_max, recsize, queued, op, short, ret, plen, cpc, clen, cin, received, base>>

\* The consumer enters __kfifo_out, and __kfifo_out_peek, with room for n
\* elements: it loads fifo->in and clamps len to what is queued.
ConsumerCall ==
    /\ cpc = "idle"
    /\ \E n \in 1..(kfifo_size(fifo) + MaxOver) :
        LET l == Uint(fifo.in - fifo.out)
        IN  clen' = (IF n > l THEN l ELSE n)
    /\ cin' = fifo.in
    /\ cpc' = "copy"
    /\ op' = "out"
    /\ UNCHANGED <<uint_max, fifo, recsize, queued, short, ret, ppc, plen, received, base>>

\* kfifo_copy_out(fifo, buf, len, fifo->out): the two memcpy and the barrier.
ConsumerCopy ==
    /\ cpc = "copy"
    /\ received' = received \o kfifo_copy_out(fifo, clen, fifo.out)
    /\ cpc' = "publish"
    /\ UNCHANGED <<uint_max, fifo, recsize, queued, op, short, ret, ppc, plen, clen, cin, base>>

\* fifo->out += len; return len.
ConsumerPublish ==
    /\ cpc = "publish"
    /\ fifo' = [fifo EXCEPT !.out = Uint(fifo.out + clen)]
    /\ cpc' = "idle"
    /\ UNCHANGED <<uint_max, recsize, queued, op, short, ret, ppc, plen, clen, cin, received, base>>

Producer ==
    \/ ProducerCall
    \/ ProducerCopy
    \/ ProducerPublish

Consumer ==
    \/ ConsumerCall
    \/ ConsumerCopy
    \/ ConsumerPublish

NextSPSC ==
    \/ Producer
    \/ Consumer

\* One thread that calls kfifo_in and one that calls kfifo_out, with no lock,
\* their steps interleaved in every way.
SpecSPSC == InitSPSC /\ [][NextSPSC]_vars

\* The same with each thread scheduled again and again.
SpecLive == SpecSPSC /\ WF_vars(Producer) /\ WF_vars(Consumer)

\* The struct as the consumer has it in a statement that loaded fifo->in before.
ConsumerView(f, in) == [f EXCEPT !.in = in]

\* kfifo_reset_out in the consumer thread: the load of fifo->in ...
ConsumerResetLoad ==
    /\ cpc = "idle"
    /\ cin' = fifo.in
    /\ cpc' = "reset"
    /\ UNCHANGED <<uint_max, fifo, recsize, queued, op, short, ret, ppc, plen, clen, received, base>>

\* ... and the store of the value loaded to fifo->out.
ConsumerResetStore ==
    /\ cpc = "reset"
    /\ fifo' = [fifo EXCEPT !.out = kfifo_reset_out(ConsumerView(fifo, cin)).out]
    /\ received' = <<>>
    /\ base' = cin
    /\ cpc' = "idle"
    /\ op' = "reset_out"
    /\ UNCHANGED <<uint_max, recsize, queued, short, ret, ppc, plen, clen, cin>>

ConsumerReset ==
    \/ ConsumerResetLoad
    \/ ConsumerResetStore

NextReset ==
    \/ Producer
    \/ Consumer
    \/ ConsumerReset

\* The two threads, with a consumer that also calls kfifo_reset_out.
SpecReset == InitSPSC /\ [][NextReset]_vars

(* --------------------- what the claims speak of ----------------------- *)

\* capacity = mask + 1, occupancy = (write_index - read_index) mod 2^width.
Capacity(f) == f.mask + 1

Occupancy(f) == (f.in - f.out) % UintMod

Unused(f) == Capacity(f) - Occupancy(f)

\* The bytes of the element in physical slot s.
Slot(f, s) == [j \in 1..f.esize |-> f.data[s * f.esize + (j - 1)]]

\* The physical slot of index idx.
SlotOf(f, idx) == idx % Capacity(f)

\* The physical slots of the k elements from index idx on.
SlotsFrom(f, idx, k) == {SlotOf(f, idx + i) : i \in 0..(k - 1)}

ElementMode == recsize = 0 /\ kfifo_initialized(fifo)

RecordMode == recsize # 0 /\ kfifo_initialized(fifo)

(* -------------------------------- C1 ---------------------------------- *)

\* C1: in byte/element mode, after init and any sequence of enqueue, dequeue,
\* dequeue_peek, reset and reset_read_only calls, whatever the counts asked for,
\* the occupancy (write_index - read_index) mod 2^width lies between 0 and
\* capacity = mask + 1.
C1_OccupancyWithinCapacity ==
    recsize = 0 => (0 <= Occupancy(fifo) /\ Occupancy(fifo) <= Capacity(fifo))

\* An enqueue asked for more than the capacity and filled the fifo.
C1_Witness ==
    /\ ElementMode
    /\ op = "in"
    /\ short
    /\ ret = Capacity(fifo)
    /\ Occupancy(fifo) = Capacity(fifo)

(* -------------------------------- C2 ---------------------------------- *)

\* C2: in byte/element mode the elements dequeue returns are, in order and
\* with their values, the oldest elements accepted and not yet returned: a
\* dequeue of any count, in any reachable state, returns the head of the
\* sequence of accepted elements that follows what was returned before, also
\* across the physical end of the buffer, so that the element returned at read
\* index q is the one accepted at write index q; and the fifo is empty exactly
\* when everything accepted has been returned.
C2_FifoOrder ==
    ElementMode =>
        /\ kfifo_is_empty(fifo) <=> queued = <<>>
        /\ \A n \in Counts(fifo) :
            LET r == __kfifo_out(fifo, n)
            IN  /\ r.ret <= Len(queued)
                /\ r.dst = Flatten(Take(queued, r.ret))
                /\ r.dst = Flatten(Source(fifo.out, r.ret, fifo.esize))

\* A dequeue returned elements that lay across the physical end of the buffer,
\* after the buffer had been gone round twice, and emptied the fifo.
C2_Witness ==
    /\ ElementMode
    /\ op = "out"
    /\ ret >= 2
    /\ fifo.out >= 2 * Capacity(fifo)
    /\ SlotOf(fifo, fifo.out - ret) + ret > Capacity(fifo)
    /\ kfifo_is_empty(fifo)
    /\ queued = <<>>

(* -------------------------------- C3 ---------------------------------- *)

\* C3: enqueue(source, k) returns n = min(k, unused()), stores source[0..n-1]
\* in the physical slots (write_index + i) & mask, i < n, touches no other
\* slot, advances write_index by n and leaves read_index alone; on a full
\* fifo it returns 0 and changes nothing.
C3_EnqueueContract ==
    ElementMode =>
        \A k \in Counts(fifo) :
            LET src == Source(fifo.in, k, fifo.esize)
                r == __kfifo_in(fifo, Flatten(src), k)
                n == min(k, Unused(fifo))
            IN  /\ r.ret = n
                /\ r.fifo.in = (fifo.in + n) % UintMod
                /\ r.fifo.out = fifo.out
                /\ r.fifo.mask = fifo.mask
                /\ r.fifo.esize = fifo.esize
                /\ \A i \in 0..(n - 1) : Slot(r.fifo, SlotOf(fifo, fifo.in + i)) = src[i + 1]
                /\ \A b \in DOMAIN fifo.data :
                    (b \div fifo.esize) \notin SlotsFrom(fifo, fifo.in, n)
                        => r.fifo.data[b] = fifo.data[b]
                /\ Unused(fifo) = 0 => (r.ret = 0 /\ r.fifo = fifo)

\* An enqueue was cut short: it took a part of what was offered, across the
\* physical end of the buffer, and the fifo is full.
C3_Witness ==
    /\ ElementMode
    /\ op = "in"
    /\ short
    /\ ret >= 2
    /\ SlotOf(fifo, fifo.in - ret) + ret > Capacity(fifo)
    /\ Unused(fifo) = 0

(* -------------------------------- C4 ---------------------------------- *)

\* C4: dequeue(destination, k) returns n = min(k, occupancy()), delivers the
\* n oldest queued elements, read from the physical slots (read_index + i) &
\* mask, i < n, advances read_index by n and changes nothing else; on an
\* empty fifo it returns 0 and changes nothing.
C4_DequeueContract ==
    ElementMode =>
        \A k \in Counts(fifo) :
            LET r == __kfifo_out(fifo, k)
                n == min(k, Occupancy(fifo))
            IN  /\ r.ret = n
                /\ r.dst = Flatten([i \in 1..n |-> Slot(fifo, SlotOf(fifo, fifo.out + i - 1))])
                /\ n <= Len(queued)
                /\ r.dst = Flatten(Take(queued, n))
                /\ r.fifo = [fifo EXCEPT !.out = (fifo.out + n) % UintMod]
                /\ Occupancy(fifo) = 0 => (r.ret = 0 /\ r.fifo = fifo)

\* A dequeue was cut short: it delivered all that was queued, from across the
\* physical end of the buffer.
C4_Witness ==
    /\ ElementMode
    /\ op = "out"
    /\ short
    /\ ret >= 2
    /\ SlotOf(fifo, fifo.out - ret) + ret > Capacity(fifo)

(* -------------------------------- C5 ---------------------------------- *)

\* C5: dequeue_peek, dequeue_record_peek and peek_record_length leave the
\* write index, the read index and the buffer as they were, so a peek repeated
\* returns the same again, and the dequeue that follows the peeks returns the
\* data they returned.
C5_PeekIdempotent ==
    /\ ElementMode =>
        \A n \in Counts(fifo) :
            LET p == __kfifo_out_peek(fifo, n)
                q == __kfifo_out_peek(p.fifo, n)
                o == __kfifo_out(q.fifo, n)
            IN  /\ p.fifo = fifo
                /\ q = p
                /\ o.ret = p.ret
                /\ o.dst = p.dst
    /\ RecordMode =>
        /\ \A n \in Counts(fifo) :
            LET p == __kfifo_out_peek_r(fifo, n, recsize)
                q == __kfifo_out_peek_r(p.fifo, n, recsize)
                o == __kfifo_out_r(q.fifo, n, recsize)
            IN  /\ p.fifo = fifo
                /\ q = p
                /\ o.ret = p.ret
                /\ o.dst = p.dst
        /\ LET l == __kfifo_len_r(fifo, recsize)
               m == __kfifo_len_r(l.fifo, recsize)
               o == __kfifo_out_r(m.fifo, l.ret, recsize)
           IN  /\ l.fifo = fifo
               /\ m = l
               /\ ~kfifo_is_empty(fifo) => (o.ret = l.ret /\ Len(o.dst) = l.ret)

\* A record peek returned the payload of a queued record, which is still queued.
C5_Witness ==
    /\ RecordMode
    /\ op = "out_peek_r"
    /\ ret >= 1
    /\ ~short
    /\ queued # <<>>
    /\ Len(Head(queued)) = ret

(* -------------------------------- C6 ---------------------------------- *)

\* The largest power of two that is <= n (0 for n = 0).
Pow2Floor(n) ==
    IF n = 0 THEN 0
    ELSE CHOOSE p \in {2 ^ k : k \in 0..UintBits} : p <= n /\ n < 2 * p

IsPow2(n) == n # 0 /\ Pow2Floor(n) = n

\* The size in bytes of the buffer the fifo was last initialised with.
BufferBytes(f) == Cardinality(DOMAIN f.data)

C7_InitFailsExactlyBelowTwo ==
    op = "init" =>
        LET c == Pow2Floor(BufferBytes(fifo) \div fifo.esize)
        IN  /\ ret = -EINVAL <=> c < 2
            /\ c >= 2 => (ret = 0 /\ fifo.mask = c - 1 /\ fifo.in = 0 /\ fifo.out = 0)

(* -------------------------------- C8 ---------------------------------- *)

\* C8 as claimed: an init that fails with -EINVAL leaves the write index, the
\* read index, the mask, the element size and the buffer of the fifo as they
\* were before the call.
C8_FailedInitChangesNothing ==
    [][(op' = "init" /\ ret' = -EINVAL) => fifo' = fifo]_vars

\* C8 as amended: an init that fails with -EINVAL does change the fifo: it
\* zeroes both indices, records the element size and the buffer it was given,
\* and sets the mask to 0, so that the fifo reads as not initialised; it writes
\* no byte of the buffer.
C8_FailedInitLeavesUnusable ==
    /\ \A size \in AllSizes, es \in ElemSizes, fill \in FillBytes :
        LET r == __kfifo_init(fifo, size, es, fill)
        IN  r.ret = -EINVAL =>
                /\ r.fifo = [in |-> 0, out |-> 0, mask |-> 0, esize |-> es,
                             data |-> [i \in 0..(size - 1) |-> fill]]
                /\ ~kfifo_initialized(r.fifo)
    /\ (op = "init" /\ ret = -EINVAL) =>
        /\ fifo.in = 0 /\ fifo.out = 0 /\ fifo.mask = 0
        /\ fifo.esize \in ElemSizes
        /\ \A b \in DOMAIN fifo.data : fifo.data[b] \in FillBytes

\* An init failed on a buffer of at least two elements' bytes.
C8_Witness ==
    /\ op = "init"
    /\ ret = -EINVAL
    /\ fifo.mask = 0
    /\ fifo.esize = 2
    /\ BufferBytes(fifo) = 3

(* -------------------------------- C9 ---------------------------------- *)

\* C9: an enqueue_record whose payload length plus header width exceeds
\* unused() returns 0 and leaves the write index, the read index, unused() and
\* every byte of the buffer as they were.
C9_RecordRejectedWhole ==
    RecordMode =>
        \A n \in Counts(fifo) :
            n + recsize > Unused(fifo) =>
                LET r == __kfifo_in_r(fifo, Payload(n), n, recsize)
                IN  /\ r.ret = 0
                    /\ r.fifo = fifo
                    /\ Unused(r.fifo) = Unused(fifo)

\* A record was rejected by a fifo that holds a record and still has room,
\* though not for the one offered.
C9_Witness ==
    /\ RecordMode
    /\ op = "in_r"
    /\ short
    /\ ret = 0
    /\ queued # <<>>
    /\ Unused(fifo) >= 1

(* -------------------------------- C10 --------------------------------- *)

\* The bytes a record of payload rec takes in the buffer: the length, low byte
\* first, in rs bytes, then the payload.
Framed(rec, rs) ==
    [i \in 1..rs |-> (Len(rec) \div (256 ^ (i - 1))) % 256] \o rec

\* Record lengths about the one-byte and the two-byte limits.
HeaderLens == {0, 1, 255, 256, 257, 511, 65280, 65535}

\* max_record_length = 2^(8 * header_width) - 1
MaxRecordLength(rs) == (256 ^ rs) - 1

\* C10: for header width 1 or 2, the queued records lie in the buffer from the
\* read index on, each as its length (low byte at the lower circular offset)
\* followed by its payload, all offsets modulo the capacity; a
\* dequeue_record with room for the oldest record returns that record, with
\* its length and its bytes, and moves the read index to the next one; and a
\* header of any length <= max_record_length, stored at any write offset,
\* reads back as that length.
C10_RecordRoundTrip ==
    RecordMode =>
        /\ kfifo_is_empty(fifo) <=> queued = <<>>
        /\ LET bytes == Flatten([i \in 1..Len(queued) |-> Framed(queued[i], recsize)])
           IN  /\ Len(bytes) = Occupancy(fifo)
               /\ \A i \in 1..Len(bytes) :
                    i <= Capacity(fifo) =>
                        fifo.data[SlotOf(fifo, fifo.out + i - 1)] = bytes[i]
        /\ queued # <<>> =>
            \A n \in Counts(fifo) :
                n >= Len(Head(queued)) =>
                    LET r == __kfifo_out_r(fifo, n, recsize)
                    IN  /\ r.ret = Len(Head(queued))
                        /\ r.dst = Head(queued)
                        /\ r.fifo = [fifo EXCEPT !.out =
                                (fifo.out + Len(Head(queued)) + recsize) % UintMod]
        /\ \A len \in HeaderLens :
            len <= MaxRecordLength(recsize) =>
                LET g == [fifo EXCEPT !.data = __kfifo_poke_n(fifo, len, recsize),
                                      !.out = fifo.in]
                IN  /\ __kfifo_peek_n(g, recsize) = len
                    /\ g.data[SlotOf(fifo, fifo.in)] = len % 256
                    /\ recsize = 2 => g.data[SlotOf(fifo, fifo.in + 1)] = len \div 256
                    /\ \A b \in DOMAIN fifo.data :
                        b \notin SlotsFrom(fifo, fifo.in, recsize) => g.data[b] = fifo.data[b]

\* A record with a two-byte header that lay split across the physical end of
\* the buffer, low byte in the last slot, was dequeued whole.
C10_Witness ==
    /\ RecordMode
    /\ recsize = 2
    /\ op = "out_r"
    /\ ~short
    /\ ret >= 1
    /\ SlotOf(fifo, fifo.out - ret - 2) = fifo.mask

(* -------------------------------- C11 --------------------------------- *)

C12_PeekLenZeroWhenEmpty ==
    (RecordMode /\ kfifo_is_empty(fifo)) => __kfifo_len_r(fifo, recsize).ret = 0

(* -------------------------------- C15 --------------------------------- *)

\* C15: round_down_to_pow2(n) is the largest power of two <= n for every n
\* from 1 to the largest unsigned int, those with the top bit set included, and
\* 0 for n = 0; n is the element count size / esize every init rounds down.
C15_RoundDownToPow2 ==
    op = "init" =>
        LET n == BufferBytes(fifo) \div fifo.esize
        IN  rounddown_pow_of_two(n) = Pow2Floor(n)

(* -------------------------------- C16 --------------------------------- *)

\* C16: in record mode, after any sequence of enqueue_record, dequeue_record,
\* peek_record_length and skip_record calls, skip_record on the empty fifo
\* included, the occupancy (write_index - read_index) mod 2^width is at most
\* the capacity: the read index has not moved past the write index.
C16_RecordOccupancyWithinCapacity ==
    RecordMode => (0 <= Occupancy(fifo) /\ Occupancy(fifo) <= Capacity(fifo))

(* -------------------------------- C17 --------------------------------- *)

\* C17: with the indices in unsigned counters of UintBits bits and a capacity
\* that is a smaller power of two, in every reachable state, also when a
\* counter has wrapped past 2^UintBits - 1 to 0 (so that the write index is
\* the smaller number), kfifo_len, kfifo_unused, kfifo_is_empty and
\* kfifo_is_full give the true number of queued elements and what follows from
\* it, index & mask is the index modulo the capacity, the queued elements lie
\* in order in the slots from the read index on, and a dequeue returns them in
\* that order.
C17_IndexWrapHarmless ==
    ElementMode =>
        /\ Capacity(fifo) < UintMod
        /\ kfifo_len(fifo) = Len(queued)
        /\ kfifo_unused(fifo) = Capacity(fifo) - Len(queued)
        /\ kfifo_is_empty(fifo) <=> Len(queued) = 0
        /\ kfifo_is_full(fifo) <=> Len(queued) = Capacity(fifo)
        /\ \A idx \in 0..(UintMod - 1) : BitAnd(idx, fifo.mask) = idx % Capacity(fifo)
        /\ \A i \in 1..Len(queued) :
            Slot(fifo, BitAnd(Uint(fifo.out + i - 1), fifo.mask)) = queued[i]
        /\ \A n \in Counts(fifo) :
            LET r == __kfifo_out(fifo, n)
            IN  /\ r.ret = min(n, Len(queued))
                /\ r.dst = Flatten(Take(queued, r.ret))
                /\ kfifo_len(r.fifo) = Len(queued) - r.ret

\* A dequeue delivered elements of a fifo whose write index had wrapped past
\* the largest unsigned int while its read index had not, and left two or more
\* of them queued: the write index is the smaller number of the two.
C17_Witness ==
    /\ ElementMode
    /\ op = "out"
    /\ ret >= 1
    /\ fifo.in < fifo.out
    /\ fifo.in >= 1
    /\ Len(queued) >= 2

(* -------------------------------- C19 --------------------------------- *)

\* The fifo after k calls of __kfifo_skip_r: the read index moved over k
\* records as their stored headers say.
RECURSIVE SkipRecords(_, _, _)
SkipRecords(f, rs, k) ==
    IF k = 0 THEN f ELSE SkipRecords(__kfifo_skip_r(f, rs), rs, k - 1)

\* The headers stored for the queued records lead from the read index to the
\* write index: the header met after i - 1 records decodes to the length of
\* the i-th record accepted, so the read index moves for it by that length
\* plus the header's width as the write index did, and arrives at the write
\* index after the last.
FramingConsistent ==
    /\ \A i \in 1..Len(queued) :
        LET g == SkipRecords(fifo, recsize, i - 1)
        IN  /\ __kfifo_peek_n(g, recsize) = Len(queued[i])
            /\ __kfifo_skip_r(g, recsize).out = Uint(g.out + Len(queued[i]) + recsize)
    /\ SkipRecords(fifo, recsize, Len(queued)).out = fifo.in

\* C19 as claimed: for every enqueue_record that was accepted, whatever its
\* payload length, the stored header decodes to that length and the read index
\* moves along the records by what the write index moved.
C19_AcceptedRecordsFramed ==
    RecordMode => FramingConsistent

\* C19 as amended: the same for the records accepted with a payload length of
\* at most max_record_length = 2^(8 * header_width) - 1; a longer record that
\* fits is accepted too, and its header holds its length modulo
\* 2^(8 * header_width), which is not its length.
C19_ClampedRecordsFramed ==
    RecordMode =>
        /\ Clamped => FramingConsistent
        /\ \A n \in RecordLens :
            LET r == __kfifo_in_r(fifo, Payload(n), n, recsize)
                h == __kfifo_peek_n([r.fifo EXCEPT !.out = fifo.in], recsize)
            IN  /\ r.fifo.in # fifo.in <=> n + recsize <= Unused(fifo)
                /\ r.fifo.in # fifo.in =>
                    /\ r.fifo.in = (fifo.in + n + recsize) % UintMod
                    /\ h = n % (MaxRecordLength(recsize) + 1)
                    /\ h = n <=> n <= MaxRecordLength(recsize)

\* A record of max_record_length bytes was accepted behind another one, after
\* the buffer had been gone round.
C19_Witness ==
    /\ RecordMode
    /\ op = "in_r"
    /\ ret = MaxRecordLength(recsize)
    /\ Len(queued) = 2
    /\ fifo.in > WideSize

(* -------------------------------- C20 --------------------------------- *)

\* The bytes of the buffer that hold what is queued and not yet dequeued: the
\* slots from the read index up to the write index.
QueuedBytes(f) ==
    {b \in DOMAIN f.data : (b \div f.esize) \in SlotsFrom(f, f.out, Occupancy(f))}

\* The bytes of the buffer behind its last slot, when its size is no power of two.
SpareBytes(f) == {b \in DOMAIN f.data : b >= Capacity(f) * f.esize}

\* Every byte of `bytes` is in g's buffer what it is in f's.
SameBytes(f, g, bytes) ==
    /\ DOMAIN g.data = DOMAIN f.data
    /\ \A b \in bytes : g.data[b] = f.data[b]

\* C20: enqueue and enqueue_record, with any count or length, change no byte
\* of a slot that holds a queued element or a part of a queued record (nor a
\* byte behind the last slot): they write unused slots only; dequeue,
\* dequeue_peek, dequeue_record, its peek, skip_record and
\* peek_record_length change no byte of the buffer at all.
C20_BufferFrame ==
    /\ ElementMode =>
        \A k \in Counts(fifo) :
            /\ SameBytes(fifo, __kfifo_in(fifo, Flatten(Source(fifo.in, k, fifo.esize)), k).fifo,
                         QueuedBytes(fifo) \cup SpareBytes(fifo))
            /\ __kfifo_out(fifo, k).fifo.data = fifo.data
            /\ __kfifo_out_peek(fifo, k).fifo.data = fifo.data
    /\ RecordMode =>
        /\ \A n \in Counts(fifo) :
            /\ SameBytes(fifo, __kfifo_in_r(fifo, Payload(n), n, recsize).fifo,
                         QueuedBytes(fifo) \cup SpareBytes(fifo))
            /\ __kfifo_out_r(fifo, n, recsize).fifo.data = fifo.data
            /\ __kfifo_out_peek_r(fifo, n, recsize).fifo.data = fifo.data
        /\ __kfifo_skip_r(fifo, recsize).data = fifo.data
        /\ __kfifo_len_r(fifo, recsize).fifo.data = fifo.data

\* An enqueue of two or more elements went, across the physical end of the
\* buffer, into a fifo that held elements already and still holds them.
C20_Witness ==
    /\ ElementMode
    /\ op = "in"
    /\ ret >= 2
    /\ Occupancy(fifo) > ret
    /\ SlotOf(fifo, fifo.in - ret) + ret > Capacity(fifo)
    /\ SpareBytes(fifo) # {}

(* -------------------------------- C13 --------------------------------- *)

\* The elements the consumer has copied out since the read index was `base`.
Delivered == Len(received) \div fifo.esize

\* The slots the producer's call in progress writes or has written, not yet
\* published.
Writing == IF ppc = "idle" THEN 0 ELSE plen

\* C13: one producer in kfifo_in and one consumer in kfifo_out, each a load of
\* the other's index, a copy and a store to its own index, interleaved in
\* every way.  In every state: the consumer's len covers no slot behind the
\* write index it loaded, which is not behind the published one; every slot
\* from the read index up to the published write index holds, complete, the
\* element the producer accepted for that index; the slots of the producer's
\* call in progress lie in the unused space, apart from every slot not yet
\* dequeued; and what the consumer has copied out is the producer's stream
\* from its first element on, up to the read index, no further than the
\* write index.
C13_SPSCSafe ==
    ElementMode =>
        /\ Occupancy(fifo) <= Capacity(fifo)
        /\ cpc # "idle" =>
            /\ clen <= Uint(cin - fifo.out)
            /\ Uint(cin - fifo.out) <= Occupancy(fifo)
        /\ \A i \in 0..(Occupancy(fifo) - 1) :
            Slot(fifo, SlotOf(fifo, fifo.out + i)) = Elem(fifo.out + i, fifo.esize)
        /\ Writing <= Unused(fifo)
        /\ SlotsFrom(fifo, fifo.in, Writing)
                \cap SlotsFrom(fifo, fifo.out, Occupancy(fifo)) = {}
        /\ Len(received) = Delivered * fifo.esize
        /\ received = Flatten(Source(0, Delivered, fifo.esize))
        /\ Delivered = fifo.out + (IF cpc = "publish" THEN clen ELSE 0)
        /\ Delivered <= fifo.in

\* The consumer is about to copy elements out while the producer, whose call
\* was clamped, has copied into all the unused slots and not yet published,
\* the buffer having been gone round.
C13_Witness ==
    /\ ElementMode
    /\ cpc = "copy"
    /\ clen >= 2
    /\ ppc = "publish"
    /\ plen >= 1
    /\ plen = Unused(fifo)
    /\ short
    /\ fifo.in >= Capacity(fifo)

(* -------------------------------- C14 --------------------------------- *)

\* C14: the consumer also calls kfifo_reset_out, a load of fifo->in and a
\* store of the value loaded to fifo->out, while the producer keeps calling
\* kfifo_in.  In every state the occupancy is within the capacity, and what
\* the consumer has dequeued since the last reset is the producer's stream
\* from the element at the write index that reset loaded (base) on, in order
\* and without a gap, up to the read index and no further than the write
\* index.
C14_ResetOutSafe ==
    ElementMode =>
        /\ Occupancy(fifo) <= Capacity(fifo)
        /\ Len(received) = Delivered * fifo.esize
        /\ received = Flatten(Source(base, Delivered, fifo.esize))
        /\ base + Delivered = fifo.out + (IF cpc = "publish" THEN clen ELSE 0)
        /\ base + Delivered <= fifo.in

\* The consumer is inside kfifo_reset_out, between the load and the store: it
\* loaded a write index ahead of the read index, the producer has published
\* more since and is copying again; an earlier reset discarded elements and
\* the consumer has dequeued after it.
C14_Witness ==
    /\ ElementMode
    /\ cpc = "reset"
    /\ fifo.out < cin
    /\ cin < fifo.in
    /\ ppc = "copy"
    /\ base >= 1
    /\ Delivered >= 1

(* -------------------------------- C18 --------------------------------- *)

\* The whole input stream, as bytes.
Stream == Flatten(Source(0, StreamLen, fifo.esize))

\* C18: a producer that offers, call after call, what is left of a stream of
\* StreamLen elements (a short or empty enqueue is followed by another for the
\* remainder) and a consumer that keeps calling kfifo_out with a positive
\* count, both weakly fair.  In no state do the unused space kfifo_in
\* computes and the length kfifo_out computes both come out as 0, and from
\* some state on the consumer has received the whole stream, and nothing else.
C18_ProgressUnderBackpressure ==
    /\ [](~(kfifo_unused(fifo) = 0 /\ kfifo_len(fifo) = 0))
    /\ <>[](received = Stream)

\* The whole stream has been delivered through a buffer smaller than the
\* stream, after at least one enqueue that was cut short.
C18_Witness ==
    /\ ElementMode
    /\ Capacity(fifo) < StreamLen
    /\ short
    /\ received = Stream
    /\ kfifo_is_empty(fifo)

(* -------------------------------- C21 --------------------------------- *)

\* The bytes of the buffer the header of a record enqueued now goes to.
HeaderBytes(f, rs) ==
    {b \in DOMAIN f.data : (b \div f.esize) \in SlotsFrom(f, f.in, rs)}

\* C21, as claimed: whenever enqueue_record returns 0, for any payload length
\* including 0, the write index and the buffer are as they were before the
\* call.
C21_ZeroMeansRejected ==
    RecordMode =>
        \A n \in Counts(fifo) :
            LET r == __kfifo_in_r(fifo, Payload(n), n, recsize)
            IN  r.ret = 0 => (r.fifo.in = fifo.in /\ r.fifo.data = fifo.data)

\* C21, as the code has it: enqueue_record returns the payload's length when
\* it accepts and 0 when it rejects.  For a payload of one byte or more a
\* return of 0 means rejected, the fifo as it was.  An empty payload returns 0
\* either way: rejected when the header does not fit, the fifo as it was;
\* accepted otherwise, the header bytes set to 0, no other byte changed and the
\* write index advanced by the header width.
C21_ZeroMeansRejectedOrEmpty ==
    RecordMode =>
        \A n \in Counts(fifo) :
            LET r == __kfifo_in_r(fifo, Payload(n), n, recsize)
            IN  /\ n + recsize > Unused(fifo) => (r.ret = 0 /\ r.fifo = fifo)
                /\ n + recsize <= Unused(fifo) =>
                    /\ r.ret = n
                    /\ r.fifo.in = Uint(fifo.in + n + recsize)
                    /\ r.fifo.out = fifo.out
                /\ (r.ret = 0 /\ n >= 1) => r.fifo = fifo
                /\ (r.ret = 0 /\ n = 0 /\ r.fifo # fifo) =>
                    /\ r.fifo.in = Uint(fifo.in + recsize)
                    /\ \A b \in HeaderBytes(fifo, recsize) : r.fifo.data[b] = 0
                    /\ SameBytes(fifo, r.fifo, DOMAIN fifo.data \ HeaderBytes(fifo, recsize))

\* An empty record was accepted behind a record with a payload: the call
\* returned 0 and the write index moved.
C21_Witness ==
    /\ RecordMode
    /\ op = "in_r"
    /\ ret = 0
    /\ ~short
    /\ Len(queued) >= 2
    /\ queued[Len(queued)] = <<>>
    /\ Len(queued[1]) >= 1
    /\ __kfifo_peek_n([fifo EXCEPT !.out = Uint(fifo.in - recsize)], recsize) = 0

====
